---- MODULE Spec2Model ----
(***************************************************************************)
(* Model of atsmodified.py: the PDF text extractor, the Gemini request     *)
(* builder, the first-line score parser and the three button actions of    *)
(* the Streamlit page.                                                      *)
(*                                                                         *)
(* A Python str is a sequence of characters; a character is a one-element  *)
(* string, except SUP2, which stands for U+00B2 SUPERSCRIPT TWO.  An       *)
(* optional value (Python None) is a sequence of length 0 or 1.            *)
(***************************************************************************)
EXTENDS Integers, Sequences, FiniteSets, TLC

VARIABLES
    input_text,     \* st.text_area value: the job description
    uploaded_file,  \* st.file_uploader value: None or Some([pages, pos])
    submit,         \* <<submit1, submit2, submit3>> of the current script run
    pc,             \* position of the script run
    max_pages,      \* max_pages argument of the extraction under way
    extracted,      \* outcome of extract_text_from_pdf
    resume_text,    \* local of the button actions
    instruction,    \* instruction argument of get_gemini_response
    parts,          \* request segments handed to model.generate_content
    calls,          \* outbound generate_content calls made in this script run
    response,       \* None or Some(text returned by the service)
    score,          \* None or Some(integer)
    screen,         \* what the script run has rendered, in order
    log,            \* steps the script run has taken, in order
    first_outcome   \* history: outcome of the first extraction of the upload

vars == <<input_text, uploaded_file, submit, pc, max_pages, extracted,
          resume_text, instruction, parts, calls, response, score, screen,
          log, first_outcome>>

None == <<>>
Some(x) == <<x>>

----------------------------------------------------------------------------
(* Python str primitives                                                   *)

SUP2 == "sup2"

\* str.isspace on one character: str.strip() removes these.
isspace(ch) == ch \in {" ", "\n"}

\* Line boundary recognised by str.splitlines().
islinebreak(ch) == ch = "\n"

\* int() accepts the characters of category Nd.
isdecimal(ch) == ch \in {"0", "1", "2", "3", "4", "5", "6", "7", "8", "9"}

\* str.isdigit on one character: the decimal digits and the digits that are
\* not decimal, such as the superscript digits.
isdigit(ch) == isdecimal(ch) \/ ch = SUP2

RECURSIVE lstrip(_)
lstrip(s) ==
    IF s = <<>> THEN <<>>
    ELSE IF isspace(Head(s)) THEN lstrip(Tail(s)) ELSE s

RECURSIVE rstrip(_)
rstrip(s) ==
    IF s = <<>> THEN <<>>
    ELSE IF isspace(s[Len(s)]) THEN rstrip(SubSeq(s, 1, Len(s) - 1)) ELSE s

\* str.strip()
strip(s) == rstrip(lstrip(s))

\* Index of the first line break of s, 0 when there is none.
RECURSIVE find_linebreak(_, _)
find_linebreak(s, k) ==
    IF k > Len(s) THEN 0
    ELSE IF islinebreak(s[k]) THEN k ELSE find_linebreak(s, k + 1)

\* str.splitlines(): no line for the empty string, none after a final break.
RECURSIVE splitlines(_)
splitlines(s) ==
    IF s = <<>> THEN <<>>
    ELSE LET k == find_linebreak(s, 1) IN
         IF k = 0 THEN <<s>>
         ELSE <<SubSeq(s, 1, k - 1)>> \o splitlines(SubSeq(s, k + 1, Len(s)))

\* "".join(ch for ch in s if ch.isdigit())
RECURSIVE join_digits(_)
join_digits(s) ==
    IF s = <<>> THEN <<>>
    ELSE (IF isdigit(Head(s)) THEN <<Head(s)>> ELSE <<>>) \o join_digits(Tail(s))

digit_value(ch) ==
    CASE ch = "0" -> 0 [] ch = "1" -> 1 [] ch = "2" -> 2 [] ch = "3" -> 3
      [] ch = "4" -> 4 [] ch = "5" -> 5 [] ch = "6" -> 6 [] ch = "7" -> 7
      [] ch = "8" -> 8 [] ch = "9" -> 9

RECURSIVE decimal_value(_)
decimal_value(d) ==
    IF d = <<>> THEN 0
    ELSE 10 * decimal_value(SubSeq(d, 1, Len(d) - 1)) + digit_value(d[Len(d)])

\* int(d) inside try/except ValueError: None when int() raises, which it does
\* on a character that is not a decimal digit.
int_or_none(d) ==
    IF \A k \in 1..Len(d) : isdecimal(d[k]) THEN Some(decimal_value(d)) ELSE None

\* str(n) for n >= 0
RECURSIVE str(_)
str(n) ==
    LET d == <<"0", "1", "2", "3", "4", "5", "6", "7", "8", "9">>[(n % 10) + 1] IN
    IF n < 10 THEN <<d>> ELSE str(n \div 10) \o <<d>>

----------------------------------------------------------------------------
(* Score parsing of the Percentage Match action                            *)

\* Variant: the lines of the response as written, not trimmed first.
lines_mutant_no_strip(text) == splitlines(text)
lines_of(text) == splitlines(strip(text))

first_line_of(lines) == IF lines # <<>> THEN strip(lines[1]) ELSE <<>>

\* score = None; if digits: try: score = int(digits) except ValueError: None
parsed_score(digits) == IF digits # <<>> THEN int_or_none(digits) ELSE None

\* The value the action shows as the metric: score when
\* "score is not None and 0 <= score <= 100", otherwise none (warning).
\* Variant: the range test left out.
shown_score_mutant_no_range(sc) == sc
shown_score(sc) ==
    IF sc # None /\ 0 <= sc[1] /\ sc[1] <= 100 THEN sc ELSE None

parseScore(text) ==
    shown_score(parsed_score(join_digits(first_line_of(lines_of(text)))))

----------------------------------------------------------------------------
(* extract_text_from_pdf                                                   *)

PAGE_HEADER_OPEN == <<"-", "-", "-", " ", "P", "a", "g", "e", " ">>
PAGE_HEADER_CLOSE == <<" ", "-", "-", "-", "\n">>
PAGE_SEPARATOR == <<"\n", "\n">>

\* uploaded_file.seek(0)
\* Variant: the read position left where it is.
seek_mutant_no_reset(file, offset) == file
seek(file, offset) == [file EXCEPT !.pos = offset]

\* PdfReader(uploaded_file).pages: the reader consumes the stream from its
\* read position on; positions are counted in pages.
PdfReader(file) == SubSeq(file.pages, file.pos + 1, Len(file.pages))

\* page.extract_text() or "": a page is None (no text layer) or Some(text).
extract_text(page) == IF page = None THEN <<>> ELSE page[1]

\* "if max_pages is not None and i >= max_pages: break", i counted from 0
\* Variant: the break one page late.
cap_reached_mutant_off_by_one(cap, i) == cap # None /\ i > cap[1]
cap_reached(cap, i) == cap # None /\ i >= cap[1]

\* "if page_text.strip()": the page contributes a block
\* Variant: the page tested without trimming it.
has_text_mutant_unstripped(page_text) == page_text # <<>>
has_text(page_text) == strip(page_text) # <<>>

\* f"--- Page {i+1} ---\n{page_text.strip()}"
\* Variant: the label numbered from 0.
page_block_mutant_zero_based(i, page_text) ==
    PAGE_HEADER_OPEN \o str(i) \o PAGE_HEADER_CLOSE \o strip(page_text)
page_block(i, page_text) ==
    PAGE_HEADER_OPEN \o str(i + 1) \o PAGE_HEADER_CLOSE \o strip(page_text)

\* The for loop from index i on: the blocks appended to texts and the page
\* indices (from 1) whose text was extracted, both in order.
RECURSIVE scan_pages(_, _, _)
scan_pages(reader_pages, cap, i) ==
    IF i >= Len(reader_pages) \/ cap_reached(cap, i)
    THEN [texts |-> <<>>, reads |-> <<>>]
    ELSE LET page_text == extract_text(reader_pages[i + 1])
             rest == scan_pages(reader_pages, cap, i + 1)
         IN [texts |-> (IF has_text(page_text)
                        THEN <<page_block(i, page_text)>> ELSE <<>>) \o rest.texts,
             reads |-> <<i + 1>> \o rest.reads]

\* "\n\n".join(texts)
RECURSIVE join_blocks(_)
join_blocks(texts) ==
    IF texts = <<>> THEN <<>>
    ELSE IF Len(texts) = 1 THEN texts[1]
    ELSE texts[1] \o PAGE_SEPARATOR \o join_blocks(Tail(texts))

\* The call's outcome: the exception raised or the text returned, with the
\* pages read on the way.  file is None or Some([pages, pos]).
extract_text_from_pdf(file, cap) ==
    IF file = None
    THEN [status |-> "FileNotFoundError", text |-> <<>>, reads |-> <<>>]
    ELSE LET scan == scan_pages(PdfReader(seek(file[1], 0)), cap, 0)
             full_text == strip(join_blocks(scan.texts))
         IN IF full_text = <<>>
            THEN [status |-> "ValueError", text |-> <<>>, reads |-> scan.reads]
            ELSE [status |-> "ok", text |-> full_text, reads |-> scan.reads]

----------------------------------------------------------------------------
(* get_gemini_response                                                     *)

JD_LABEL == <<"J", "o", "b", " ", "D", "e", "s", "c", "r", "i", "p", "t", "i", "o", "n", ":", "\n">>
JD_FALLBACK == <<"N", "o", " ", "j", "o", "b", " ", "d", "e", "s", "c", "r", "i", "p", "t", "i", "o", "n", " ", "p", "r", "o", "v", "i", "d", "e", "d", ".", " ", "A", "s", "s", "u", "m", "e", " ", "a", " ", "g", "e", "n", "e", "r", "i", "c", " ", "t", "e", "c", "h", "n", "i", "c", "a", "l", " ", "r", "o", "l", "e", ".">>
RESUME_LABEL == <<"C", "a", "n", "d", "i", "d", "a", "t", "e", " ", "R", "e", "s", "u", "m", "e", " ", "(", "e", "x", "t", "r", "a", "c", "t", "e", "d", " ", "f", "r", "o", "m", " ", "P", "D", "F", ")", ":", "\n">>

\* The three instruction strings, each taken as one opaque text.
PROMPT_ANALYZE == <<"PROMPT_ANALYZE">>
PROMPT_SKILLS == <<"PROMPT_SKILLS">>
PROMPT_MATCH == <<"PROMPT_MATCH">>
Prompts == {PROMPT_ANALYZE, PROMPT_SKILLS, PROMPT_MATCH}

\* "if jd_text and jd_text.strip(): ... else: ..."
\* Variant: the job text passed on as typed.
jd_part_mutant_untrimmed(jd_text) ==
    IF jd_text # <<>> /\ strip(jd_text) # <<>> THEN JD_LABEL \o jd_text ELSE JD_FALLBACK
jd_part(jd_text) ==
    IF jd_text # <<>> /\ strip(jd_text) # <<>>
    THEN JD_LABEL \o strip(jd_text)
    ELSE JD_FALLBACK

\* parts, as handed to model.generate_content
request_parts(jd_text, resume, instr) ==
    <<instr, jd_part(jd_text), RESUME_LABEL \o resume>>

----------------------------------------------------------------------------
(* Input domains                                                           *)

MaxDocPages == 3      \* pages of a document handed to the extractor alone
MaxCap == 3           \* largest max_pages handed to the extractor alone
MaxUploadPages == 6   \* pages of a document uploaded through the page
MaxRespLen == 4       \* characters of a response handed to the parser alone
MaxJobLen == 3        \* characters of a job text handed to the requester alone

\* The max_pages every button action passes.
BUTTON_MAX_PAGES == 5

\* All sequences over alphabet of length at most n.
RECURSIVE Texts(_, _)
Texts(alphabet, n) ==
    IF n = 0 THEN {<<>>}
    ELSE LET shorter == Texts(alphabet, n - 1) IN
         shorter \cup {Append(t, ch) : t \in {u \in shorter : Len(u) = n - 1},
                                       ch \in alphabet}

\* Pages: without text layer, blank, plain text, text to be stripped, and
\* text with inner white space.
PageValues ==
    {None, Some(<<" ", "\n">>), Some(<<"a">>), Some(<<" ", "b", "\n">>),
     Some(<<"a", "\n", "\n", "b">>)}
BLANK_PAGE == Some(<<" ">>)
TEXT_PAGE == Some(<<"a">>)

Documents == Texts(PageValues, MaxDocPages)

\* The document of n blank pages, but for page j when j is in 1..n.
RECURSIVE OneTextPage(_, _)
OneTextPage(n, j) ==
    IF n = 0 THEN <<>>
    ELSE Append(OneTextPage(n - 1, j), IF n = j THEN TEXT_PAGE ELSE BLANK_PAGE)

\* Uploads: every page count, with no page or one page holding text.
UploadDocuments ==
    {OneTextPage(n, j) : n \in 0..MaxUploadPages, j \in 0..MaxUploadPages}

\* An upload with its read position anywhere.
Files(docs) == UNION {{Some([pages |-> d, pos |-> p]) : p \in 0..Len(d)} : d \in docs}

Caps == {None} \cup {Some(m) : m \in 0..MaxCap}

ResponseChars == {"0", "1", "7", "8", "%", " ", "\n", SUP2}
Responses == Texts(ResponseChars, MaxRespLen)

\* What the service answers a button press with.
ServiceReplies ==
    {<<"7", "8", "%", "\n", "\n", "o", "k">>, <<"1", "0", "5", "%">>,
     <<"o", "k", "\n", "8">>, <<>>, <<"\n", "7", "%">>, <<"7", SUP2, "%">>}

JobChars == {"j", " ", "\n"}
JobTexts == Texts(JobChars, MaxJobLen)
JobInputs == {<<>>, <<" ">>, <<" ", "j", "\n">>}

Buttons == {<<b1, b2, b3>> : b1 \in BOOLEAN, b2 \in BOOLEAN, b3 \in BOOLEAN}
NoButton == <<FALSE, FALSE, FALSE>>

----------------------------------------------------------------------------
(* The page script                                                         *)

\* if submit1: ... elif submit2: ... elif submit3: ...
branch(b) ==
    IF b[1] THEN "submit1" ELSE IF b[2] THEN "submit2"
    ELSE IF b[3] THEN "submit3" ELSE "none"

prompt_of(br) ==
    CASE br = "submit1" -> PROMPT_ANALYZE
      [] br = "submit2" -> PROMPT_SKILLS
      [] br = "submit3" -> PROMPT_MATCH

error_label(br) ==
    CASE br = "submit1" -> "Error during analysis"
      [] br = "submit2" -> "Error during skill analysis"
      [] br = "submit3" -> "Error during ATS match evaluation"

subheader_of(br) ==
    CASE br = "submit1" -> "Detailed Resume Review"
      [] br = "submit2" -> "Skill Gap & Improvement Plan"
      [] br = "submit3" -> "ATS Match Result"

\* st.error(f"<label>: {e}")
st_error(label, e) == [kind |-> "error", label |-> label, exc |-> e]
st_upload_first == [kind |-> "error", label |-> "Please upload your resume PDF first.", exc |-> "none"]
st_success == [kind |-> "success"]
st_subheader(label) == [kind |-> "subheader", label |-> label]
st_write(text) == [kind |-> "write", text |-> text]
\* st.metric("ATS Match", f"{score}%")
st_metric(n) == [kind |-> "metric", text |-> str(n) \o <<"%">>]
\* st.progress(score / 100), the fraction kept as its numerator
st_progress(n) == [kind |-> "progress", percent |-> n]
st_warning == [kind |-> "warning"]
st_markdown_rule == [kind |-> "markdown"]

\* Lines 149-168: what every script run renders before the button actions.
page_top(file) == IF file # None THEN <<st_success>> ELSE <<>>

\* A script run starts with its locals unset.
FreshRun ==
    /\ extracted' = None
    /\ resume_text' = None
    /\ parts' = None
    /\ calls' = 0
    /\ response' = None
    /\ score' = None
    /\ log' = <<>>

\* The user edits the job description: a script run with no button set.
EditJob(t) ==
    /\ pc = "idle"
    /\ max_pages' = None
    /\ instruction' = None
    /\ input_text' = t
    /\ submit' = NoButton
    /\ screen' = page_top(uploaded_file)
    /\ FreshRun
    /\ UNCHANGED <<uploaded_file, pc, first_outcome>>

\* The user uploads a PDF: a script run with no button set.
Upload(d) ==
    /\ pc = "idle"
    /\ max_pages' = None
    /\ instruction' = None
    /\ uploaded_file' = Some([pages |-> d, pos |-> 0])
    /\ first_outcome' = None
    /\ submit' = NoButton
    /\ screen' = page_top(uploaded_file')
    /\ FreshRun
    /\ UNCHANGED <<input_text, pc>>

\* The user removes the upload.
RemoveFile ==
    /\ pc = "idle"
    /\ max_pages' = None
    /\ instruction' = None
    /\ uploaded_file # None
    /\ uploaded_file' = None
    /\ first_outcome' = None
    /\ submit' = NoButton
    /\ screen' = page_top(None)
    /\ FreshRun
    /\ UNCHANGED <<input_text, pc>>

\* A script run with buttons set, up to the guard "uploaded_file is not None"
\* of the branch taken.
Press(b) ==
    /\ pc = "idle"
    /\ b # NoButton
    /\ submit' = b
    /\ max_pages' = Some(BUTTON_MAX_PAGES)
    /\ instruction' = Some(prompt_of(branch(b)))
    /\ FreshRun
    /\ IF uploaded_file # None
       THEN /\ pc' = "extract"
            /\ screen' = page_top(uploaded_file)
       ELSE /\ pc' = "idle"
            /\ screen' = Append(page_top(uploaded_file), st_upload_first)
    /\ UNCHANGED <<input_text, uploaded_file, first_outcome>>

\* try: resume_text = extract_text_from_pdf(...); response = ...
\* except Exception: st.error(...) -- where the run goes after the extraction.
\* Variant: the request made whatever the extraction gave.
after_extract_mutant_ignore_failure(status) == "request"
after_extract(status) == IF status = "ok" THEN "request" ELSE "idle"

\* resume_text = extract_text_from_pdf(uploaded_file, max_pages), with the
\* except branch of the button action.  Reading leaves the stream position
\* wherever the reader stopped.
Extract ==
    /\ pc = "extract"
    /\ LET r == extract_text_from_pdf(uploaded_file, max_pages)
       IN /\ extracted' = Some(r)
          /\ log' = Append(log, "extract")
          /\ first_outcome' =
                IF first_outcome = None
                THEN Some([outcome |-> r, again |-> FALSE])
                ELSE Some([first_outcome[1] EXCEPT !.again = TRUE])
          /\ resume_text' = IF r.status = "ok" THEN Some(r.text) ELSE None
          /\ pc' = after_extract(r.status)
          /\ screen' = IF r.status = "ok" THEN screen
                       ELSE Append(screen, st_error(error_label(branch(submit)), r.status))
    /\ IF uploaded_file = None
       THEN uploaded_file' = None
       ELSE \E p \in 0..Len(uploaded_file[1].pages) :
                uploaded_file' = Some([uploaded_file[1] EXCEPT !.pos = p])
    /\ UNCHANGED <<input_text, submit, max_pages, instruction, parts, calls, response, score>>

\* generate_content calls made by one get_gemini_response whose first call
\* ends in outcome: the call is not repeated.
\* Variant: a failed call made once more.
calls_made_mutant_retry(outcome) == IF outcome = None THEN 2 ELSE 1
calls_made(outcome) == 1

\* response = get_gemini_response(input_text, resume_text, instruction): one
\* model.generate_content(parts) call, which raises or returns a text; with
\* the except branch of the button action.
get_gemini_response(outcome) ==
    /\ parts' = Some(request_parts(input_text, resume_text[1], instruction[1]))
    /\ calls' = calls + calls_made(outcome)
    /\ log' = Append(log, "call")
    /\ IF outcome = None
       THEN /\ response' = None
            /\ pc' = "idle"
            /\ screen' = Append(screen, st_error(error_label(branch(submit)), "RequestFailed"))
       ELSE /\ response' = outcome
            /\ pc' = IF branch(submit) = "submit3" THEN "parse" ELSE "display"
            /\ screen' = screen

Request ==
    /\ pc = "request"
    /\ \E outcome \in {None} \cup {Some(t) : t \in ServiceReplies} :
           get_gemini_response(outcome)
    /\ UNCHANGED <<input_text, uploaded_file, submit, max_pages, extracted,
                   resume_text, instruction, score, first_outcome>>

\* Lines 217-226 of the Percentage Match action.
Parse ==
    /\ pc = "parse"
    /\ LET lines == lines_of(response[1])
           first_line == first_line_of(lines)
           digits == join_digits(first_line)
       IN score' = parsed_score(digits)
    /\ log' = Append(log, "parse")
    /\ pc' = "display"
    /\ UNCHANGED <<input_text, uploaded_file, submit, max_pages, extracted,
                   resume_text, instruction, parts, calls, response, screen,
                   first_outcome>>

\* What the Percentage Match action renders: lines 228-240.
\* Variant: the response written only under the metric.
match_result_mutant_write_in_if(sc, text) ==
    <<st_subheader(subheader_of("submit3"))>>
    \o (IF shown_score(sc) # None
        THEN <<st_metric(sc[1]), st_progress(sc[1]), st_markdown_rule, st_write(text)>>
        ELSE <<st_warning>>)
match_result(sc, text) ==
    <<st_subheader(subheader_of("submit3"))>>
    \o (IF shown_score(sc) # None
        THEN <<st_metric(sc[1]), st_progress(sc[1])>>
        ELSE <<st_warning>>)
    \o <<st_markdown_rule, st_write(text)>>

\* st.subheader(...); st.write(response), and for Percentage Match the
\* metric or the warning before it.
Display ==
    /\ pc = "display"
    /\ screen' = screen \o
         (IF branch(submit) = "submit3"
          THEN match_result(score, response[1])
          ELSE <<st_subheader(subheader_of(branch(submit))), st_write(response[1])>>)
    /\ log' = Append(log, "display")
    /\ pc' = "idle"
    /\ UNCHANGED <<input_text, uploaded_file, submit, max_pages, extracted,
                   resume_text, instruction, parts, calls, response, score,
                   first_outcome>>

----------------------------------------------------------------------------
(* Specifications                                                          *)

Blank ==
    /\ input_text = <<>>
    /\ uploaded_file = None
    /\ submit = NoButton
    /\ pc = "idle"
    /\ max_pages = None
    /\ extracted = None
    /\ resume_text = None
    /\ instruction = None
    /\ parts = None
    /\ calls = 0
    /\ response = None
    /\ score = None
    /\ screen = <<>>
    /\ log = <<>>
    /\ first_outcome = None

\* The page as first loaded.
Init == Blank

Next ==
    \/ \E t \in JobInputs : EditJob(t)
    \/ \E d \in UploadDocuments : Upload(d)
    \/ RemoveFile
    \/ \E b \in Buttons : Press(b)
    \/ Extract
    \/ Request
    \/ Parse
    \/ Display

Spec == Init /\ [][Next]_vars

SingleButtons == {<<TRUE, FALSE, FALSE>>, <<FALSE, TRUE, FALSE>>, <<FALSE, FALSE, TRUE>>}

\* The extractor alone: any document, read position and max_pages, and the
\* uploads of the page with the max_pages of the buttons.
InitExtract ==
    /\ input_text = <<>>
    /\ \/ /\ uploaded_file \in {None} \cup Files(Documents)
          /\ max_pages \in Caps
       \/ /\ uploaded_file \in Files(UploadDocuments)
          /\ max_pages = Some(BUTTON_MAX_PAGES)
    /\ submit \in SingleButtons
    /\ pc = "extract"
    /\ extracted = None
    /\ resume_text = None
    /\ instruction = Some(prompt_of(branch(submit)))
    /\ parts = None
    /\ calls = 0
    /\ response = None
    /\ score = None
    /\ screen = page_top(uploaded_file)
    /\ log = <<>>
    /\ first_outcome = None

SpecExtract == InitExtract /\ [][Extract]_vars

\* The requester alone: any job text, with each instruction.
InitRequest ==
    /\ input_text \in JobTexts
    /\ uploaded_file = None
    /\ submit \in SingleButtons
    /\ pc = "request"
    /\ max_pages = None
    /\ extracted = None
    /\ resume_text \in {Some(page_block(0, <<"a">>)), Some(page_block(1, <<"j", " ">>))}
    /\ instruction \in {Some(i) : i \in Prompts}
    /\ parts = None
    /\ calls = 0
    /\ response = None
    /\ score = None
    /\ screen = <<>>
    /\ log = <<>>
    /\ first_outcome = None

SpecRequest == InitRequest /\ [][Request]_vars

\* The parser alone: any response text.
InitParse ==
    /\ input_text = <<>>
    /\ uploaded_file = None
    /\ submit = <<FALSE, FALSE, TRUE>>
    /\ pc = "parse"
    /\ max_pages = None
    /\ extracted = None
    /\ resume_text = None
    /\ instruction = Some(PROMPT_MATCH)
    /\ parts = None
    /\ calls = 0
    /\ response \in {Some(t) : t \in Responses}
    /\ score = None
    /\ screen = <<>>
    /\ log = <<>>
    /\ first_outcome = None

SpecParse == InitParse /\ [][Parse \/ Display]_vars

----------------------------------------------------------------------------
(* Properties of the extractor                                             *)

Min(a, b) == IF a < b THEN a ELSE b

\* The document of the upload and the text of its page i (from 1).
DocPages == uploaded_file[1].pages
PageText(i) == IF DocPages[i] = None THEN <<>> ELSE DocPages[i][1]

\* A character that is not white space occurs in t.
NonBlank(t) == \E k \in 1..Len(t) : t[k] \notin {" ", "\n"}

\* t without its leading and trailing white space, found by position.
Trimmed(t) ==
    IF ~NonBlank(t) THEN <<>>
    ELSE LET ks == {k \in 1..Len(t) : t[k] \notin {" ", "\n"}}
             lo == CHOOSE k \in ks : \A j \in ks : k <= j
             hi == CHOOSE k \in ks : \A j \in ks : k >= j
         IN SubSeq(t, lo, hi)

\* The block the output holds for page i: its label, then its trimmed text.
LabeledBlock(i) ==
    <<"-", "-", "-", " ", "P", "a", "g", "e", " ">> \o str(i)
    \o <<" ", "-", "-", "-", "\n">> \o Trimmed(PageText(i))

\* Least position from `from` on at which block occurs in text, 0 if none.
RECURSIVE Occurs(_, _, _)
Occurs(text, block, from) ==
    IF from + Len(block) - 1 > Len(text) THEN 0
    ELSE IF SubSeq(text, from, from + Len(block) - 1) = block THEN from
    ELSE Occurs(text, block, from + 1)

\* The blocks occur in text one after the other, without overlap.
RECURSIVE InOrder(_, _, _)
InOrder(text, blocks, from) ==
    IF blocks = <<>> THEN TRUE
    ELSE LET at == Occurs(text, blocks[1], from) IN
         at # 0 /\ InOrder(text, Tail(blocks), at + Len(blocks[1]))

\* The labeled blocks of the pages of set S that hold text, in page order.
RECURSIVE BlocksOf(_, _)
BlocksOf(S, i) ==
    IF i > Len(DocPages) THEN <<>>
    ELSE (IF i \in S /\ NonBlank(PageText(i)) THEN <<LabeledBlock(i)>> ELSE <<>>)
         \o BlocksOf(S, i + 1)

\* An extraction of an uploaded document has returned or raised.
Extracted == uploaded_file # None /\ extracted # None

\* The pages within the cap: all of them when max_pages is None.
Scanned ==
    IF max_pages = None THEN 1..Len(DocPages)
    ELSE 1..Min(Len(DocPages), max_pages[1])

\* C1 as stated: whenever some page of the document holds text, the
\* extraction succeeds, whatever max_pages is, and its result holds the
\* labeled block of every such page, in page order.
C1_AsClaimed ==
    (Extracted /\ \E i \in 1..Len(DocPages) : NonBlank(PageText(i)))
    => /\ extracted[1].status = "ok"
       /\ extracted[1].text # <<>>
       /\ InOrder(extracted[1].text, BlocksOf(1..Len(DocPages), 1), 1)

\* C1 amended: whenever some page among the first max_pages pages (any page
\* when max_pages is None) holds text, the extraction succeeds with a
\* non-empty result that holds, for each such page, the block made of the
\* label with its page number and its trimmed text, the blocks in page order.
C1_Extraction ==
    (Extracted /\ \E i \in Scanned : NonBlank(PageText(i)))
    => /\ extracted[1].status = "ok"
       /\ extracted[1].text # <<>>
       /\ InOrder(extracted[1].text, BlocksOf(Scanned, 1), 1)

\* A blank page between two pages with text, all three extracted, the first
\* to be trimmed.
C1_Witness ==
    /\ Extracted
    /\ extracted[1].status = "ok"
    /\ max_pages = Some(3)
    /\ DocPages = <<Some(<<" ", "b", "\n">>), Some(<<" ", "\n">>), Some(<<"a">>)>>

\* C4: the extraction of a document raises ValueError exactly when none of
\* the pages it read holds a character that is not white space; otherwise it
\* succeeds, and the result holds the block of every page read that has
\* text, the blank pages before it notwithstanding.
C4_NoExtractableText ==
    Extracted
    => LET read == {extracted[1].reads[k] : k \in 1..Len(extracted[1].reads)} IN
       /\ extracted[1].status \in {"ok", "ValueError"}
       /\ extracted[1].status = "ValueError"
            <=> \A i \in read : ~NonBlank(PageText(i))
       /\ \A i \in read :
            NonBlank(PageText(i)) => Occurs(extracted[1].text, LabeledBlock(i), 1) # 0

\* Two blank pages, then a page with text, all within the cap.
C4_Witness ==
    /\ Extracted
    /\ extracted[1].status = "ok"
    /\ Len(DocPages) = 3
    /\ ~NonBlank(PageText(1)) /\ ~NonBlank(PageText(2)) /\ NonBlank(PageText(3))
    /\ DocPages[1] # DocPages[2]

\* The outcome the extractor has on the first m pages alone, read in full.
OutcomeOnFirst(m) ==
    extract_text_from_pdf(
        Some([pages |-> SubSeq(DocPages, 1, Min(Len(DocPages), m)), pos |-> 0]), None)

\* C5: with a cap m on a document of n pages, the pages read are exactly
\* 1, 2, ..., min(n, m), each once and in this order, and the outcome is the
\* one the first m pages alone give: no later page contributes.
C5_PageCap ==
    (Extracted /\ max_pages # None)
    => LET m == max_pages[1]
           n == Len(DocPages)
       IN /\ extracted[1].reads = [k \in 1..Min(n, m) |-> k]
          /\ extracted[1].status = OutcomeOnFirst(m).status
          /\ extracted[1].text = OutcomeOnFirst(m).text

\* A cap of 5 on six pages of which only the sixth holds text.
C5_Witness ==
    /\ Extracted
    /\ max_pages = Some(BUTTON_MAX_PAGES)
    /\ Len(DocPages) = BUTTON_MAX_PAGES + 1
    /\ NonBlank(PageText(BUTTON_MAX_PAGES + 1))
    /\ extracted[1].status = "ValueError"
    /\ Len(extracted[1].reads) = BUTTON_MAX_PAGES

----------------------------------------------------------------------------
(* Properties of the score parser                                          *)

\* The Percentage Match action has rendered its result.
MatchShown == pc = "idle" /\ response # None /\ \E k \in 1..Len(screen) : screen[k].kind = "write"

\* The score the action shows: the value of its progress bar, if any.
MatchScore ==
    IF \E k \in 1..Len(screen) : screen[k].kind = "progress"
    THEN Some(screen[CHOOSE k \in 1..Len(screen) : screen[k].kind = "progress"].percent)
    ELSE None

DecimalDigits == {"0", "1", "2", "3", "4", "5", "6", "7", "8", "9"}
DigitChars == DecimalDigits \cup {SUP2}
IsDecimalDigit(ch) == ch \in DecimalDigits
IsDigitChar(ch) == ch \in DigitChars

\* The value of a string of decimal digits, the leftmost the most significant.
RECURSIVE ValueOf(_, _)
ValueOf(d, acc) ==
    IF d = <<>> THEN acc
    ELSE ValueOf(Tail(d), 10 * acc + (CHOOSE v \in 0..9 : str(v) = <<Head(d)>>))

\* The text up to its first line break: its first line as written.
RawFirstLine(text) ==
    IF \E k \in 1..Len(text) : text[k] = "\n"
    THEN SubSeq(text, 1, (CHOOSE k \in 1..Len(text) :
                            text[k] = "\n" /\ \A j \in 1..(k - 1) : text[j] # "\n") - 1)
    ELSE text

\* The text from its first character that is not white space on.
RECURSIVE SkipBlank(_)
SkipBlank(text) ==
    IF text = <<>> \/ text[1] \notin {" ", "\n"} THEN text ELSE SkipBlank(Tail(text))

\* The first line that holds a character other than white space, from that
\* character on; empty when there is none.
FirstNonBlankLine(text) == RawFirstLine(SkipBlank(text))

\* C2 as stated: the score is the value of the decimal digits of the first
\* line of the response when there is one and the value is at most 100, and
\* absent otherwise.
C2_AsClaimed ==
    MatchShown
    => LET d == SelectSeq(RawFirstLine(response[1]), IsDecimalDigit) IN
       MatchScore = IF d # <<>> /\ ValueOf(d, 0) <= 100 THEN Some(ValueOf(d, 0)) ELSE None

\* C2 amended: the score is absent or an integer in 0..100; with d the digit
\* characters, in order, of the first line of the response that is not
\* blank, it is the value of d when d is not empty, holds decimal digits
\* only and is worth at most 100, and absent otherwise.
C2_ParseScore ==
    MatchShown
    => LET d == SelectSeq(FirstNonBlankLine(response[1]), IsDigitChar)
           decimal == \A k \in 1..Len(d) : IsDecimalDigit(d[k])
       IN /\ MatchScore = None \/ MatchScore[1] \in 0..100
          /\ MatchScore = IF d # <<>> /\ decimal /\ ValueOf(d, 0) <= 100
                          THEN Some(ValueOf(d, 0)) ELSE None

\* "7 8" on the first line gives 78, and "100" gives 100.
C2_Witness ==
    /\ MatchShown
    /\ response = Some(<<"7", " ", "8", "%">>)
    /\ MatchScore = Some(78)

\* C3 as stated: a response whose first line, as written, holds no digit has
\* no score, whatever its later lines hold.
C3_AsClaimed ==
    MatchShown
    => (SelectSeq(RawFirstLine(response[1]), IsDigitChar) = <<>> => MatchScore = None)

\* C3 amended: the parser uses the first line of the response once its
\* surrounding white space is trimmed, that is its first line that is not
\* blank: the score is the one this line alone gives, and it is absent when
\* this line holds no digit, whatever the later lines hold.
C3_FirstLineOnly ==
    MatchShown
    => LET line == FirstNonBlankLine(response[1]) IN
       /\ MatchScore = parseScore(line)
       /\ SelectSeq(line, IsDigitChar) = <<>> => MatchScore = None

\* Digits on the second line only: no score.
C3_Witness ==
    /\ MatchShown
    /\ response = Some(<<"%", "\n", "7", "8">>)
    /\ MatchScore = None

----------------------------------------------------------------------------
(* Properties of the requester                                             *)

IsBlank(t) == \A k \in 1..Len(t) : t[k] \in {" ", "\n"}

\* C6: the request is three segments, in the order instruction, job
\* description, resume.  The second is the fallback sentence when the job
\* text is empty or blank; otherwise it is the job description label, then
\* the job text without its leading and trailing white space, its inside
\* untouched.  The first and the third are the instruction and the labeled
\* resume text, whatever the job text.
C6_RequestSegments ==
    parts # None
    => LET jd == input_text
           seg == parts[1][2]
           label == <<"J", "o", "b", " ", "D", "e", "s", "c", "r", "i", "p",
                      "t", "i", "o", "n", ":", "\n">>
           body == SubSeq(seg, Len(label) + 1, Len(seg))
       IN /\ Len(parts[1]) = 3
          /\ parts[1][1] = instruction[1]
          /\ parts[1][3] = RESUME_LABEL \o resume_text[1]
          /\ IsBlank(jd) => seg = JD_FALLBACK
          /\ ~IsBlank(jd) =>
               /\ SubSeq(seg, 1, Len(label)) = label
               /\ body # <<>>
               /\ ~IsBlank(<<body[1]>>) /\ ~IsBlank(<<body[Len(body)]>>)
               /\ \E i \in 1..Len(jd) :
                    /\ SubSeq(jd, i, i + Len(body) - 1) = body
                    /\ IsBlank(SubSeq(jd, 1, i - 1))
                    /\ IsBlank(SubSeq(jd, i + Len(body), Len(jd)))

\* A job text with white space on both sides of its one other character.
C6_Witness ==
    /\ parts # None
    /\ input_text = <<" ", "j", "\n">>
    /\ Len(parts[1][2]) = Len(JD_LABEL) + 1

----------------------------------------------------------------------------
(* Properties of the button actions                                        *)

Shown(kind) == \E k \in 1..Len(screen) : screen[k].kind = kind
Pressed == submit # NoButton
FirstPressed ==
    CHOOSE n \in 1..3 : submit[n] /\ \A j \in 1..(n - 1) : ~submit[j]
RunOver == pc = "idle" /\ Pressed

\* C7: when a Percentage Match run ends and the request has returned a
\* response, the response text is on the screen, parsed score or not, and no
\* error message is; without a score in 0..100 the warning is shown and no
\* metric, with one the metric is shown and no warning.
C7_RawResponseShown ==
    (RunOver /\ FirstPressed = 3 /\ response # None)
    => LET parsed == score # None /\ score[1] \in 0..100 IN
       /\ \E k \in 1..Len(screen) :
              screen[k].kind = "write" /\ screen[k].text = response[1]
       /\ ~Shown("error")
       /\ ~parsed => Shown("warning") /\ ~Shown("metric")
       /\ parsed => Shown("metric") /\ ~Shown("warning")

\* A response whose first line gives 105: warning and response both shown.
C7_Witness ==
    /\ RunOver /\ FirstPressed = 3
    /\ response = Some(<<"1", "0", "5", "%">>)
    /\ score = Some(105)
    /\ Shown("warning") /\ Shown("write")

\* C8: a script run makes at most one outbound call, and a request made
\* means exactly one; when that call fails the run ends with calls = 1, the
\* error message of its action on the screen, and neither a response, a
\* result heading nor a score shown.
C8_OneCallNoRetry ==
    /\ calls \in {0, 1}
    /\ parts # None => calls = 1
    /\ calls = Len(SelectSeq(log, LAMBDA e : e = "call"))
    /\ (RunOver /\ calls = 1 /\ response = None)
       => /\ Shown("error")
          /\ ~Shown("write") /\ ~Shown("subheader") /\ ~Shown("metric")
          /\ ~Shown("progress") /\ ~Shown("warning")
          /\ score = None

\* A failed call of the first action.
C8_Witness ==
    /\ RunOver /\ FirstPressed = 1
    /\ calls = 1 /\ response = None
    /\ Shown("error")

IsPrefix(a, b) == Len(a) <= Len(b) /\ SubSeq(b, 1, Len(a)) = a

\* C9: the steps of a run are taken in the order extraction, call, parsing
\* (Percentage Match only), display; the run is at the request or beyond it
\* only after an extraction that succeeded; a run without upload or with a
\* failed extraction ends with no call made and with an error message and
\* nothing else shown after the page top; and a run takes the action of one
\* button only, with the instruction of that button.
C9_StepOrder ==
    /\ Pressed =>
         IsPrefix(log, IF FirstPressed = 3
                       THEN <<"extract", "call", "parse", "display">>
                       ELSE <<"extract", "call", "display">>)
    /\ (pc \in {"request", "parse", "display"} \/ calls > 0)
       => extracted # None /\ extracted[1].status = "ok"
    /\ (RunOver /\ (uploaded_file = None \/ extracted = None \/ extracted[1].status # "ok"))
       => /\ calls = 0 /\ parts = None /\ response = None
          /\ screen # <<>> /\ screen[Len(screen)].kind = "error"
          /\ ~Shown("write") /\ ~Shown("subheader")
    /\ Pressed =>
         /\ Len(SelectSeq(screen, LAMBDA x : x.kind \in {"subheader", "error"})) <= 1
         /\ parts # None =>
              parts[1][1] = <<PROMPT_ANALYZE, PROMPT_SKILLS, PROMPT_MATCH>>[FirstPressed]
         /\ \A k \in 1..Len(screen) :
              screen[k].kind = "subheader" =>
                screen[k].label = <<"Detailed Resume Review", "Skill Gap & Improvement Plan",
                                    "ATS Match Result">>[FirstPressed]

\* All three steps of a Skill Gap run taken, two buttons set at once.
C9_Witness ==
    /\ RunOver
    /\ submit = <<FALSE, TRUE, TRUE>>
    /\ log = <<"extract", "call", "display">>
    /\ parts # None /\ parts[1][1] = PROMPT_SKILLS

\* C10: an extraction of the upload leaves the pages of the document as they
\* were and has the outcome of the first extraction of that upload: the same
\* exception or the same text, from the same pages read.
C10_Repeatable ==
    [][pc = "extract" =>
         /\ uploaded_file' # None
         /\ uploaded_file'[1].pages = uploaded_file[1].pages
         /\ extracted' # None
         /\ extracted'[1] = first_outcome'[1].outcome]_vars

\* A two-page upload extracted again, with success.
C10_Witness ==
    /\ first_outcome # None /\ first_outcome[1].again
    /\ extracted # None /\ extracted[1].status = "ok"
    /\ log = <<"extract">>
    /\ Len(uploaded_file[1].pages) = 2

====
